---- MODULE Spec2Model ----
(***************************************************************************)
(* Model of src/app.py: a Streamlit script that uploads a video to the     *)
(* Gemini Files API (resumable upload: init + transmit), polls the file's  *)
(* processing state, and then runs generateContent analyses against it.    *)
(*                                                                         *)
(* Streamlit re-executes the whole script on every widget interaction.     *)
(* st.session_state (file_uri, file_name, upload_complete) survives the    *)
(* re-runs of one browser session; the temp file "temp_video.mp4" is a     *)
(* fixed path in the server's working directory, common to all sessions.   *)
(* One script run is modelled as a sequence of steps (pc), one step per    *)
(* remote call or file operation; the user acts when the run has ended.    *)
(***************************************************************************)
EXTENDS Integers, Sequences, FiniteSets, TLC

\* ------------------------------------------------------------------ bounds
\* Remote calls logged per session in the single-session specification.
MaxNet == 7
\* Remote calls logged per session in the two-session specification.
MaxSessNet == 2
\* Remote calls logged in the specification that explores the options.
MaxOptNet == 5
\* Remote calls after which the specification of the unattended poll loop
\* starts no further upload.
MaxLiveNet == 3
\* The poll count of a run is kept modulo PollWrap, so that a loop without
\* an attempt bound has finitely many states.
PollWrap == 3

\* ------------------------------------------------------------------ values
Sessions == {"A", "B"}

\* Python's None for file_uri / file_name / uploaded_file handles and URLs.
None == 0

\* The videos a user can select, by name, and their bytes.
Files == {"a.mp4", "b.mov"}

FileBytes(f) == IF f = "a.mp4" THEN <<1>> ELSE <<2, 2>>

NoFile == "None"

\* File states the server may report (Files API enum).
States == {"PROCESSING", "ACTIVE", "FAILED", "STATE_UNSPECIFIED"}

\* Line 110: the options of the selectbox; the first one is its default.
AnalysisTypes ==
    << "Anomaly Detection", "Object Detection", "Unknown Person Detection",
       "Summarization" >>

Range(seq) == {seq[i] : i \in DOMAIN seq}

\* Texts the user may type into the focus field.
FocusTexts == {"", "the red car"}

VARIABLES
    api_key,          \* TRUE iff GEMINI_API_KEY is set in the environment
    temp_file,        \* bytes of temp_video.mp4 (one path for every session)
    next_url,         \* server: next resumable-session URL to hand out
    next_handle,      \* server: next file handle (uri / name) to hand out
    session_init,     \* [s]: the three session_state keys exist
    file_uri,         \* [s]: st.session_state.file_uri
    file_name,        \* [s]: st.session_state.file_name
    upload_complete,  \* [s]: st.session_state.upload_complete
    uploaded_file,    \* [s]: value of the file_uploader widget
    button,           \* [s]: button whose click triggered the current run
    pc,               \* [s]: position of the current script run
    file_size,        \* [s]: local file_size of the upload handler
    upload_url,       \* [s]: local upload_url of the upload handler
    state,            \* [s]: local state of the poll loop
    polls,            \* [s]: status GETs issued by the run, counted modulo PollWrap
    get_response,     \* [s]: last status GET response received by the run
    response,         \* [s]: last generateContent response received
    display,          \* [s]: message / result element shown by the run
    analysis_shown,   \* [s]: the page shows the analysis section
    analysis_type,    \* [s]: value of the analysis-type selectbox
    focus_input,      \* [s]: st.session_state.focus_input (focus text widget)
    payload,          \* [s]: last generateContent request sent, with its inputs
    init_sent,        \* [s]: content length declared by the run's start request
    transmit_sent,    \* [s]: declared length and bytes of the run's transmit request
    net,              \* [s]: remote calls issued so far, with their outcome
    run_mark          \* [s]: Len(net[s]) when the current run started

vars == << api_key, temp_file, next_url, next_handle, session_init, file_uri,
           file_name, upload_complete, uploaded_file, button, pc, file_size,
           upload_url, state, polls, get_response, response, display,
           analysis_shown, analysis_type, focus_input, payload, init_sent,
           transmit_sent, net, run_mark >>

serverVars == << next_url, next_handle >>
sessionVars == << session_init, file_uri, file_name, upload_complete >>
localVars == << file_size, upload_url, state, polls, get_response, response >>
widgetVars == << analysis_type, focus_input >>

wireVars == << init_sent, transmit_sent >>

\* ------------------------------------------------------------ remote calls
\* One logged remote call: the operation, what it addressed (session URL,
\* resource name, file_uri), whether the request succeeded, the handle or URL
\* the response carried and the file state it reported.
Call(op, to, res, ret, st) ==
    [op |-> op, to |-> to, res |-> res, ret |-> ret, state |-> st]

\* No upload request of the run is on the wire yet.
NotSent == [declared |-> 0, bytes |-> <<>>, sent |-> FALSE]

\* The call is added to the session's log, which keeps the first MaxNet
\* calls.
Log(s, call) ==
    net' = [net EXCEPT ![s] = IF Len(@) < MaxNet THEN Append(@, call) ELSE @]

\* A Python lookup either yields a value or raises.
Value(v) == [exc |-> "", val |-> v]
Raise(e) == [exc |-> e, val |-> ""]


\* ------------------------------------------------------- server responses
UploadUrlHeader == "X-Goog-Upload-URL"

\* Responses to the resumable-upload start request: no response (the
\* transport failed), a non-success status, a success without the
\* session-URL header, a success carrying URL u.
InitResponses(u) ==
    << [status |-> "exception", headers |-> <<>>],
       [status |-> "error", headers |-> <<>>],
       [status |-> "ok", headers |-> <<>>],
       [status |-> "ok", headers |-> (UploadUrlHeader :> u)] >>

\* Responses to the upload-and-finalize request for a file the server stores
\* under handle h: no response, a non-success status, a body that is not
\* JSON, and JSON bodies with and without the "file" object and its "uri" and
\* "name" members.
TransmitResponses(h) ==
    << [status |-> "exception", is_json |-> FALSE, body |-> <<>>],
       [status |-> "error", is_json |-> FALSE, body |-> <<>>],
       [status |-> "ok", is_json |-> FALSE, body |-> <<>>],
       [status |-> "ok", is_json |-> TRUE, body |-> [error |-> "x"]],
       [status |-> "ok", is_json |-> TRUE,
        body |-> [file |-> [name |-> h, state |-> "PROCESSING"]]],
       [status |-> "ok", is_json |-> TRUE,
        body |-> [file |-> [uri |-> h, state |-> "PROCESSING"]]],
       [status |-> "ok", is_json |-> TRUE,
        body |-> [file |-> [uri |-> h, name |-> h, state |-> "PROCESSING"]]],
       [status |-> "ok", is_json |-> TRUE,
        body |-> [file |-> [uri |-> h, name |-> h, state |-> "ACTIVE"]]] >>

\* Responses to the status GET: no response, a non-success status, a body
\* that is not JSON, a JSON body with neither shape, and every state under
\* the wrapped and the top-level shape.
PollResponses ==
    << [status |-> "exception", is_json |-> FALSE, body |-> <<>>],
       [status |-> "error", is_json |-> FALSE, body |-> <<>>],
       [status |-> "ok", is_json |-> FALSE, body |-> <<>>],
       [status |-> "ok", is_json |-> TRUE, body |-> [error |-> "x"]],
       [status |-> "ok", is_json |-> TRUE, body |-> [file |-> [state |-> "PROCESSING"]]],
       [status |-> "ok", is_json |-> TRUE, body |-> [file |-> [state |-> "ACTIVE"]]],
       [status |-> "ok", is_json |-> TRUE, body |-> [file |-> [state |-> "FAILED"]]],
       [status |-> "ok", is_json |-> TRUE,
        body |-> [file |-> [state |-> "STATE_UNSPECIFIED"]]],
       [status |-> "ok", is_json |-> TRUE, body |-> [state |-> "PROCESSING"]],
       [status |-> "ok", is_json |-> TRUE, body |-> [state |-> "ACTIVE"]],
       [status |-> "ok", is_json |-> TRUE, body |-> [state |-> "FAILED"]],
       [status |-> "ok", is_json |-> TRUE, body |-> [state |-> "STATE_UNSPECIFIED"]] >>

\* Generated texts, and the ones json.loads accepts.
JsonText == "{\"summary\":\"ok\",\"key_events\":[]}"
PlainText == "not json"
ValidJson == {JsonText}

Candidate(text) == [content |-> [parts |-> << [text |-> text] >>]]

\* Responses to generateContent: no response, a non-success status, a body
\* that is not JSON, and JSON bodies that miss one level of
\* candidates[0].content.parts[0].text, hold an empty list there, or hold a
\* text.
GenerateResponses ==
    << [status |-> "exception", is_json |-> FALSE, body |-> <<>>],
       [status |-> "error", is_json |-> FALSE, body |-> <<>>],
       [status |-> "ok", is_json |-> FALSE, body |-> <<>>],
       [status |-> "ok", is_json |-> TRUE, body |-> [promptFeedback |-> "x"]],
       [status |-> "ok", is_json |-> TRUE, body |-> [candidates |-> <<>>]],
       [status |-> "ok", is_json |-> TRUE,
        body |-> [candidates |-> << [finishReason |-> "SAFETY"] >>]],
       [status |-> "ok", is_json |-> TRUE,
        body |-> [candidates |-> << [content |-> [role |-> "model"]] >>]],
       [status |-> "ok", is_json |-> TRUE,
        body |-> [candidates |-> << [content |-> [parts |-> <<>>]] >>]],
       [status |-> "ok", is_json |-> TRUE,
        body |-> [candidates |-> << [content |-> [parts |-> << [inlineData |-> "x"] >>]] >>]],
       [status |-> "ok", is_json |-> TRUE,
        body |-> [candidates |-> << Candidate(PlainText) >>]],
       [status |-> "ok", is_json |-> TRUE,
        body |-> [candidates |-> << Candidate(JsonText) >>]] >>

NoPayload ==
    [sent |-> FALSE, uri |-> None, mode |-> "", focus |-> "", body |-> << >>,
     rerun |-> FALSE]

NoResponse == [status |-> "none", is_json |-> FALSE, body |-> <<>>]

\* requests.post / requests.get raise when the transport fails, and
\* raise_for_status() raises on a non-success status.
RequestError(r) ==
    IF r.status = "exception" THEN "ConnectionError"
    ELSE IF r.status # "ok" THEN "HTTPError"
    ELSE ""

\* The exceptions the model raises; all are subclasses of Exception.
Exceptions ==
    {"ConnectionError", "HTTPError", "JSONDecodeError", "KeyError", "IndexError"}

\* -------------------------------------------------------------------- Init
Init ==
    /\ api_key \in BOOLEAN
    /\ temp_file = <<>>
    /\ next_url = 1
    /\ next_handle = 1
    /\ session_init = [s \in Sessions |-> FALSE]
    /\ file_uri = [s \in Sessions |-> None]
    /\ file_name = [s \in Sessions |-> None]
    /\ upload_complete = [s \in Sessions |-> FALSE]
    /\ uploaded_file = [s \in Sessions |-> NoFile]
    /\ button = [s \in Sessions |-> "none"]
    /\ pc = [s \in Sessions |-> "start"]
    /\ file_size = [s \in Sessions |-> 0]
    /\ upload_url = [s \in Sessions |-> None]
    /\ state = [s \in Sessions |-> "-"]
    /\ polls = [s \in Sessions |-> 0]
    /\ get_response = [s \in Sessions |-> NoResponse]
    /\ analysis_type = [s \in Sessions |-> AnalysisTypes[1]]
    /\ focus_input = [s \in Sessions |-> ""]
    /\ payload = [s \in Sessions |-> NoPayload]
    /\ response = [s \in Sessions |-> NoResponse]
    /\ display = [s \in Sessions |-> "none"]
    /\ analysis_shown = [s \in Sessions |-> FALSE]
    /\ init_sent = [s \in Sessions |-> NotSent]
    /\ transmit_sent = [s \in Sessions |-> NotSent]
    /\ net = [s \in Sessions |-> <<>>]
    /\ run_mark = [s \in Sessions |-> 0]

\* ---------------------------------------------------- ends of a script run
\* st.error(msg) followed by st.stop(): the run ends here, nothing below it
\* is rendered.
Stop(s, msg) ==
    /\ pc' = [pc EXCEPT ![s] = "idle"]
    /\ display' = [display EXCEPT ![s] = msg]

\* Exception e reaches an except clause that catches the classes in caught:
\* a caught one is shown as msg, any other ends the run as an uncaught
\* exception of the script.
Handle(e, caught, msg) ==
    IF e \in caught THEN msg ELSE "unhandled_exception"

\* Lines 104-143, reached with completion flag c in a run triggered by button
\* b: the analysis section is rendered iff c, and its handler runs only in the
\* run its button triggered; otherwise the script ends.
AnalysisSection(s, c, b) ==
    /\ analysis_shown' = [analysis_shown EXCEPT ![s] = c]
    /\ pc' = [pc EXCEPT ![s] = IF c /\ b = "analysis" THEN "analyze" ELSE "idle"]

\* ------------------------------------------------------------ user actions
\* A widget interaction re-runs the script from its first line with the page
\* cleared and the run's locals not yet bound. Lines 12-31 of a re-run find
\* the key and the session_state keys present: with file f in the uploader
\* the run is about to open the temp file, without one it is at line 104.
StartRun(s, f, b) ==
    /\ pc[s] = "idle"
    /\ api_key
    /\ session_init[s]
    /\ uploaded_file' = [uploaded_file EXCEPT ![s] = f]
    /\ button' = [button EXCEPT ![s] = b]
    /\ display' = [display EXCEPT ![s] = "none"]
    /\ run_mark' = [run_mark EXCEPT ![s] = Len(net[s])]
    /\ file_size' = [file_size EXCEPT ![s] = 0]
    /\ upload_url' = [upload_url EXCEPT ![s] = None]
    /\ state' = [state EXCEPT ![s] = "-"]
    /\ polls' = [polls EXCEPT ![s] = 0]
    /\ get_response' = [get_response EXCEPT ![s] = NoResponse]
    /\ response' = [response EXCEPT ![s] = NoResponse]
    /\ init_sent' = [init_sent EXCEPT ![s] = NotSent]
    /\ transmit_sent' = [transmit_sent EXCEPT ![s] = NotSent]
    /\ IF f = NoFile
       THEN AnalysisSection(s, upload_complete[s], b)
       ELSE /\ pc' = [pc EXCEPT ![s] = "open"]
            /\ analysis_shown' = [analysis_shown EXCEPT ![s] = FALSE]
    /\ UNCHANGED << api_key, temp_file, serverVars, sessionVars, net, payload >>

\* The user puts file f into the uploader.
SelectFile(s, f) ==
    /\ uploaded_file[s] # f
    /\ StartRun(s, f, "none")
    /\ UNCHANGED widgetVars

\* The user removes the file from the uploader.
RemoveFile(s) ==
    /\ uploaded_file[s] # NoFile
    /\ StartRun(s, NoFile, "none")
    /\ UNCHANGED widgetVars

\* The user clicks "Upload & Process Video" (rendered only below a file).
ClickUpload(s) ==
    /\ uploaded_file[s] # NoFile
    /\ StartRun(s, uploaded_file[s], "upload")
    /\ UNCHANGED widgetVars

\* The user clicks "Run Analysis" (rendered only in the analysis section).
ClickRunAnalysis(s) ==
    /\ analysis_shown[s]
    /\ StartRun(s, uploaded_file[s], "analysis")
    /\ UNCHANGED widgetVars

\* A text_input that is not rendered by a run keeps no value of its own:
\* whether st.session_state.focus_input survives such a run is left open.
FocusAfter(m, f) == IF m = "Summarization" THEN {f} ELSE {f, ""}

\* Lines 108-111: the user picks analysis type m in the selectbox.
ChangeOption(s, m) ==
    /\ analysis_shown[s]
    /\ analysis_type[s] # m
    /\ analysis_type' = [analysis_type EXCEPT ![s] = m]
    /\ \E f \in FocusAfter(m, focus_input[s]) :
           focus_input' = [focus_input EXCEPT ![s] = f]
    /\ StartRun(s, uploaded_file[s], "none")

\* Line 135: the user types focus text f into the field, which is rendered
\* for Summarization only.
EnterFocus(s, f) ==
    /\ analysis_shown[s]
    /\ analysis_type[s] = "Summarization"
    /\ focus_input[s] # f
    /\ focus_input' = [focus_input EXCEPT ![s] = f]
    /\ UNCHANGED analysis_type
    /\ StartRun(s, uploaded_file[s], "none")


\* ------------------------------------------------------------ script steps
\* A start-up that goes on without the key.
KeyCheckSkipped(k) == FALSE

\* Line 13: if not api_key.
KeyMissing(k) == ~k

\* The first run of a session (page load), lines 12-104: without the key the
\* script stops at line 15; with it the session_state keys get their defaults,
\* the uploader is empty and upload_complete is False, so the script ends.
Startup(s) ==
    /\ pc[s] = "start"
    /\ IF KeyMissing(api_key)
       THEN /\ Stop(s, "config_error")
            /\ UNCHANGED << sessionVars, analysis_shown >>
       ELSE /\ session_init' = [session_init EXCEPT ![s] = TRUE]
            /\ file_uri' = [file_uri EXCEPT ![s] = None]
            /\ file_name' = [file_name EXCEPT ![s] = None]
            /\ upload_complete' = [upload_complete EXCEPT ![s] = FALSE]
            /\ AnalysisSection(s, FALSE, button[s])
            /\ UNCHANGED display
    /\ UNCHANGED << widgetVars, payload >>
    /\ UNCHANGED << api_key, temp_file, serverVars, uploaded_file, button,
                    localVars, wireVars, net, run_mark >>

\* Line 34: open(temp_file_path, "wb") truncates the temp file.
OpenTemp(s) ==
    /\ pc[s] = "open"
    /\ temp_file' = <<>>
    /\ pc' = [pc EXCEPT ![s] = "write"]
    /\ UNCHANGED << widgetVars, payload >>
    /\ UNCHANGED << api_key, serverVars, sessionVars, uploaded_file, button,
                    localVars, display, analysis_shown, wireVars, net, run_mark >>

\* f.write at offset 0 of a file opened "wb": the bytes replace the first
\* Len(bytes) bytes of what the file holds by then and keep the rest.
WriteAt0(old, bytes) ==
    bytes \o (IF Len(old) > Len(bytes)
              THEN SubSeq(old, Len(bytes) + 1, Len(old)) ELSE <<>>)

\* Lines 35-40: the uploaded bytes are written to the temp file; the upload
\* handler runs only in the run its button triggered, any other run goes on
\* to line 104.
WriteTemp(s) ==
    /\ pc[s] = "write"
    /\ temp_file' = WriteAt0(temp_file, FileBytes(uploaded_file[s]))
    /\ IF button[s] = "upload"
       THEN /\ pc' = [pc EXCEPT ![s] = "size"]
            /\ UNCHANGED analysis_shown
       ELSE AnalysisSection(s, upload_complete[s], button[s])
    /\ UNCHANGED << widgetVars, payload >>
    /\ UNCHANGED << api_key, serverVars, sessionVars, uploaded_file, button,
                    localVars, display, wireVars, net, run_mark >>

\* Line 43: file_size = os.path.getsize(temp_file_path).
GetSize(s) ==
    /\ pc[s] = "size"
    /\ file_size' = [file_size EXCEPT ![s] = Len(temp_file)]
    /\ pc' = [pc EXCEPT ![s] = "init"]
    /\ UNCHANGED << widgetVars, payload, polls >>
    /\ UNCHANGED << api_key, temp_file, serverVars, sessionVars, uploaded_file,
                    button, upload_url, state, get_response, response, display,
                    analysis_shown, wireVars, net, run_mark >>

\* Lines 56-57: raise_for_status(), then headers["X-Goog-Upload-URL"].
InitResult(r) ==
    IF RequestError(r) # "" THEN Raise(RequestError(r))
    ELSE IF UploadUrlHeader \notin DOMAIN r.headers THEN Raise("KeyError")
    ELSE Value(r.headers[UploadUrlHeader])

\* Line 75: except Exception.
UploadCatches == Exceptions

\* Lines 44-57 with the except of lines 75-77: the start request declares
\* file_size; a failure shows the upload error and stops the run.
InitRequest(s) ==
    /\ pc[s] = "init"
    /\ init_sent' = [init_sent EXCEPT ![s] =
                        [declared |-> file_size[s], bytes |-> <<>>, sent |-> TRUE]]
    /\ \E i \in DOMAIN InitResponses(next_url) :
         LET r == InitResponses(next_url)[i]
             u == InitResult(r)
         IN IF u.exc # ""
            THEN /\ Log(s, Call("init", None, "error", None, "-"))
                 /\ Stop(s, Handle(u.exc, UploadCatches, "upload_failed"))
                 /\ UNCHANGED << upload_url, next_url >>
            ELSE /\ Log(s, Call("init", None, "ok", u.val, "-"))
                 /\ upload_url' = [upload_url EXCEPT ![s] = u.val]
                 /\ next_url' = next_url + 1
                 /\ pc' = [pc EXCEPT ![s] = "transmit"]
                 /\ UNCHANGED display
    /\ UNCHANGED << widgetVars, payload, polls >>
    /\ UNCHANGED << api_key, temp_file, next_handle, sessionVars, uploaded_file,
                    button, file_size, state, get_response, response,
                    analysis_shown, transmit_sent, run_mark >>

\* A handler that reads "name" with a default instead of indexing it.
StoreHandleLenient(r, uri, name) ==
    IF RequestError(r) # "" THEN [exc |-> RequestError(r), uri |-> uri, name |-> name]
    ELSE IF ~r.is_json THEN [exc |-> "JSONDecodeError", uri |-> uri, name |-> name]
    ELSE IF "file" \notin DOMAIN r.body THEN [exc |-> "KeyError", uri |-> uri, name |-> name]
    ELSE IF "uri" \notin DOMAIN r.body.file
         THEN [exc |-> "KeyError", uri |-> uri, name |-> name]
    ELSE [exc |-> "", uri |-> r.body.file.uri,
          name |-> IF "name" \in DOMAIN r.body.file THEN r.body.file.name ELSE name]

\* A handler that drops the stored handle when the upload fails.
StoreHandleOrClear(r, uri, name) ==
    IF r.status = "ok" /\ r.is_json /\ "file" \in DOMAIN r.body
       /\ "uri" \in DOMAIN r.body.file /\ "name" \in DOMAIN r.body.file
    THEN [exc |-> "", uri |-> r.body.file.uri, name |-> r.body.file.name]
    ELSE [exc |-> "KeyError", uri |-> None, name |-> None]

\* Lines 69-72: raise_for_status(), json(), then the two assignments in
\* order. The result is the (file_uri, file_name) pair the session holds
\* afterwards and the exception that ended the block, if any.
StoreHandle(r, uri, name) ==
    IF RequestError(r) # "" THEN [exc |-> RequestError(r), uri |-> uri, name |-> name]
    ELSE IF ~r.is_json THEN [exc |-> "JSONDecodeError", uri |-> uri, name |-> name]
    ELSE IF "file" \notin DOMAIN r.body THEN [exc |-> "KeyError", uri |-> uri, name |-> name]
    ELSE IF "uri" \notin DOMAIN r.body.file
         THEN [exc |-> "KeyError", uri |-> uri, name |-> name]
    ELSE IF "name" \notin DOMAIN r.body.file
         THEN [exc |-> "KeyError", uri |-> r.body.file.uri, name |-> name]
    ELSE [exc |-> "", uri |-> r.body.file.uri, name |-> r.body.file.name]

\* The state a transmit response reports for the file, if it has one.
ReportedState(r) ==
    IF r.status = "ok" /\ r.is_json /\ "file" \in DOMAIN r.body
    THEN r.body.file.state ELSE "-"

\* A poll loop that starts from the state the transmit response reported.
StateFromTransmit(r) == ReportedState(r)

\* Line 81: the poll loop is entered with the literal state "PROCESSING",
\* whatever the transmit response r reported.
LoopEntryState(r) == "PROCESSING"

\* Lines 59-81 with the except of lines 75-77: the temp file is read and sent
\* to the session URL, declared with the file_size read earlier; the handle is
\* stored; a failure shows the upload error and stops the run, a success
\* enters the poll loop with state = "PROCESSING".
Transmit(s) ==
    /\ pc[s] = "transmit"
    /\ transmit_sent' = [transmit_sent EXCEPT ![s] =
                            [declared |-> file_size[s], bytes |-> temp_file, sent |-> TRUE]]
    /\ \E i \in DOMAIN TransmitResponses(next_handle) :
         LET r == TransmitResponses(next_handle)[i]
             h == StoreHandle(r, file_uri[s], file_name[s])
         IN /\ Log(s, Call("transmit", upload_url[s],
                           IF h.exc = "" THEN "ok" ELSE "error",
                           IF ReportedState(r) # "-" THEN next_handle ELSE None,
                           ReportedState(r)))
            /\ next_handle' = IF r.status = "ok" THEN next_handle + 1 ELSE next_handle
            /\ file_uri' = [file_uri EXCEPT ![s] = h.uri]
            /\ file_name' = [file_name EXCEPT ![s] = h.name]
            /\ IF h.exc # ""
               THEN /\ Stop(s, Handle(h.exc, UploadCatches, "upload_failed"))
                    /\ UNCHANGED state
               ELSE /\ pc' = [pc EXCEPT ![s] = "poll"]
                    /\ state' = [state EXCEPT ![s] = LoopEntryState(r)]
                    /\ display' = [display EXCEPT ![s] = "upload_complete"]
    /\ UNCHANGED << widgetVars, payload, polls >>
    /\ UNCHANGED << api_key, temp_file, next_url, session_init, upload_complete,
                    uploaded_file, button, file_size, upload_url, get_response,
                    response, analysis_shown, init_sent, run_mark >>

\* A decoder that knows the wrapped shape only.
PollStateWrappedOnly(r) ==
    IF RequestError(r) # "" THEN Raise(RequestError(r))
    ELSE IF ~r.is_json THEN Raise("JSONDecodeError")
    ELSE IF "file" \in DOMAIN r.body THEN Value(r.body.file.state)
    ELSE Raise("KeyError")

\* Lines 85-91: the request, raise_for_status(), json(), then the state
\* under either shape.
PollState(r) ==
    IF RequestError(r) # "" THEN Raise(RequestError(r))
    ELSE IF ~r.is_json THEN Raise("JSONDecodeError")
    ELSE IF "file" \in DOMAIN r.body THEN Value(r.body.file.state)
    ELSE IF "state" \in DOMAIN r.body THEN Value(r.body.state)
    ELSE Raise("KeyError")

\* A poll loop without the FAILED check after it.
AfterPollNoFailedCheck(st) ==
    IF st = "PROCESSING" THEN "again" ELSE "complete"

\* A poll loop that gives up after one attempt: a file still PROCESSING is
\* reported as failed.
AfterPollSingleAttempt(st) ==
    IF st = "PROCESSING" \/ st = "FAILED" THEN "failed" ELSE "complete"

\* Lines 82 and 96-100: what follows a poll that observed state st.
AfterPoll(st) ==
    IF st = "PROCESSING" THEN "again"
    ELSE IF st = "FAILED" THEN "failed"
    ELSE "complete"

\* A poll loop whose except branch goes round the loop again.
RetryAfterPollError == "retry"

\* Lines 92-94: what follows a poll request that raised.
AfterPollError == "stop"

\* A poll loop that catches the errors of the requests library only.
PollCatchesRequestErrors == {"ConnectionError", "HTTPError"}

\* Line 92: except Exception.
PollCatches == Exceptions

\* Lines 82-101: one iteration of the poll loop, and what follows the loop
\* when it ends.
Poll(s) ==
    /\ pc[s] = "poll"
    /\ state[s] = "PROCESSING"
    /\ \E i \in DOMAIN PollResponses :
         LET r == PollResponses[i]
             st == PollState(r)
         IN /\ polls' = [polls EXCEPT ![s] = (@ + 1) % PollWrap]
            /\ get_response' = [get_response EXCEPT ![s] = r]
            /\ IF st.exc # ""
               THEN /\ Log(s, Call("get", file_name[s], "error", None, "-"))
                    /\ IF AfterPollError = "stop"
                       THEN Stop(s, Handle(st.exc, PollCatches, "poll_failed"))
                       ELSE UNCHANGED << pc, display >>
                    /\ UNCHANGED << state, upload_complete, analysis_shown >>
               ELSE /\ Log(s, Call("get", file_name[s], "ok", None, st.val))
                    /\ state' = [state EXCEPT ![s] = st.val]
                    /\ CASE AfterPoll(st.val) = "again" ->
                              UNCHANGED << pc, display, upload_complete, analysis_shown >>
                         [] AfterPoll(st.val) = "failed" ->
                              /\ Stop(s, "processing_failed")
                              /\ UNCHANGED << upload_complete, analysis_shown >>
                         [] OTHER ->
                              /\ upload_complete' = [upload_complete EXCEPT ![s] = TRUE]
                              /\ display' = [display EXCEPT ![s] = "ready"]
                              /\ AnalysisSection(s, TRUE, button[s])
    /\ UNCHANGED << widgetVars, payload >>
    /\ UNCHANGED << api_key, temp_file, serverVars, session_init, file_uri,
                    file_name, uploaded_file, button, file_size, upload_url,
                    response, wireVars, run_mark >>

\* Line 166: result["candidates"][0]["content"]["parts"][0]["text"].
ResponseText(result) ==
    IF "candidates" \notin DOMAIN result THEN Raise("KeyError")
    ELSE IF Len(result.candidates) = 0 THEN Raise("IndexError")
    ELSE IF "content" \notin DOMAIN result.candidates[1] THEN Raise("KeyError")
    ELSE IF "parts" \notin DOMAIN result.candidates[1].content THEN Raise("KeyError")
    ELSE IF Len(result.candidates[1].content.parts) = 0 THEN Raise("IndexError")
    ELSE IF "text" \notin DOMAIN result.candidates[1].content.parts[1]
         THEN Raise("KeyError")
    ELSE Value(result.candidates[1].content.parts[1].text)

\* Line 168: json.loads(response_text).
JsonLoads(text) ==
    IF text \in ValidJson THEN Value(text) ELSE Raise("JSONDecodeError")

\* Line 171: the exceptions the inner try catches.
ParseErrors == {"KeyError", "JSONDecodeError"}

\* Line 176: except Exception.
AnalysisCatches == Exceptions

\* Lines 161-179: what the run shows for response r. The request,
\* raise_for_status() and json() are outside the inner try; the inner try
\* catches ParseErrors only, the outer one AnalysisCatches.
AnalysisDisplay(r) ==
    IF RequestError(r) # ""
    THEN Handle(RequestError(r), AnalysisCatches, "analysis_failed")
    ELSE IF ~r.is_json
    THEN Handle("JSONDecodeError", AnalysisCatches, "analysis_failed")
    ELSE LET t == ResponseText(r.body)
             j == IF t.exc = "" THEN JsonLoads(t.val) ELSE t
         IN IF j.exc = "" THEN "structured"
            ELSE IF j.exc \in ParseErrors THEN "raw_fallback"
            ELSE Handle(j.exc, AnalysisCatches, "analysis_failed")

\* An analysis handler that takes a failed request to invalidate the upload.
ResetOnAnalysisFailure(r, c) ==
    IF AnalysisDisplay(r) = "analysis_failed" THEN FALSE ELSE c

\* Lines 143-179 assign no session_state key: upload_complete after the
\* handler has dealt with response r is what it was, c.
CompleteAfterAnalysis(r, c) == c

\* Lines 116-139: the fixed templates, each one piece of text (abridged to
\* its opening instruction and the schema's first key).
AnomalyPrompt ==
    << "Analyze the video for any anomalies, unusual events, or safety hazards. Return a JSON list of events [{'timestamp' ...}]" >>

ObjectPrompt ==
    << "Detect the main objects (cars, people, bags, etc.) in the video. Return a JSON list [{'object_name' ...}]" >>

PersonPrompt ==
    << "Identify individuals in the video. Flag any that appear to be unauthorized, suspicious, or unknown. Return a JSON list [{'timestamp' ...}]" >>

SummaryPrompt ==
    << "Summarize this video. Return a JSON object with: {'summary' ...}" >>

\* A prompt builder that appends the focus sentence whatever the mode.
PromptTextFocusAlways(mode, focus) ==
    LET base ==
          CASE mode = "Anomaly Detection" -> AnomalyPrompt
            [] mode = "Object Detection" -> ObjectPrompt
            [] mode = "Unknown Person Detection" -> PersonPrompt
            [] mode = "Summarization" -> SummaryPrompt
            [] OTHER -> << >>
    IN IF focus # ""
       THEN base \o << " Focus the summary only on: ", focus >>
       ELSE base

\* Lines 113-141: prompt_text, as the sequence of its pieces. Each fixed
\* template is one piece, named here by its mode; the f-string appends the
\* focus sentence and the text typed.
PromptText(mode, focus) ==
    IF mode = "Anomaly Detection" THEN AnomalyPrompt
    ELSE IF mode = "Object Detection" THEN ObjectPrompt
    ELSE IF mode = "Unknown Person Detection" THEN PersonPrompt
    ELSE IF mode = "Summarization"
    THEN IF focus # ""
         THEN SummaryPrompt \o << " Focus the summary only on: ", focus >>
         ELSE SummaryPrompt
    ELSE << >>

\* A request body that also carries the number of earlier requests.
PayloadWithTurn(uri, prompt) ==
    [contents |->
       << [parts |-> << [file_data |-> [mime_type |-> "video/mp4",
                                        file_uri |-> uri]],
                        [text |-> prompt] >>] >>,
     generationConfig |-> [responseMimeType |-> "application/json"],
     turn |-> Len(net["A"])]

\* Lines 146-159: the request body.
Payload(uri, prompt) ==
    [contents |->
       << [parts |-> << [file_data |-> [mime_type |-> "video/mp4",
                                        file_uri |-> uri]],
                        [text |-> prompt] >>] >>,
     generationConfig |-> [responseMimeType |-> "application/json"]]

\* The request sent by an analysis run of session s, with the inputs it was
\* built from and whether the previous request was built from the same ones.
Sent(s) ==
    [sent |-> TRUE,
     uri |-> file_uri[s],
     mode |-> analysis_type[s],
     focus |-> focus_input[s],
     body |-> Payload(file_uri[s], PromptText(analysis_type[s], focus_input[s])),
     rerun |-> /\ payload[s].sent
               /\ payload[s].uri = file_uri[s]
               /\ payload[s].mode = analysis_type[s]
               /\ payload[s].focus = focus_input[s]]

\* Lines 143-179: one generateContent request for st.session_state.file_uri;
\* the outcome is displayed and the run ends with the section rendered.
Analyze(s) ==
    /\ pc[s] = "analyze"
    /\ \E i \in DOMAIN GenerateResponses :
         LET r == GenerateResponses[i]
         IN /\ response' = [response EXCEPT ![s] = r]
            /\ payload' = [payload EXCEPT ![s] = Sent(s)]
            /\ display' = [display EXCEPT ![s] = AnalysisDisplay(r)]
            /\ Log(s, Call("generate", file_uri[s],
                           IF r.status = "ok" THEN "ok" ELSE "error",
                           None, "-"))
            /\ upload_complete' =
                 [upload_complete EXCEPT ![s] = CompleteAfterAnalysis(r, @)]
    /\ pc' = [pc EXCEPT ![s] = "idle"]
    /\ UNCHANGED << widgetVars, polls >>
    /\ UNCHANGED << api_key, temp_file, serverVars, session_init, file_uri,
                    file_name, uploaded_file, button, file_size, upload_url,
                    state, get_response, analysis_shown, wireVars, run_mark >>

\* ----------------------------------------------------------- specifications
User(s) ==
    \/ \E f \in Files : SelectFile(s, f)
    \/ RemoveFile(s)
    \/ ClickUpload(s)
    \/ ClickRunAnalysis(s)

Options(s) ==
    \/ \E m \in Range(AnalysisTypes) : ChangeOption(s, m)
    \/ \E f \in FocusTexts : EnterFocus(s, f)

Local(s) ==
    \/ Startup(s)
    \/ OpenTemp(s)
    \/ WriteTemp(s)
    \/ GetSize(s)

\* One browser session, with the analysis options left as the page shows
\* them first.
Next ==
    \/ User("A")
    \/ Local("A")
    \/ (Len(net["A"]) < MaxNet /\ InitRequest("A"))
    \/ (Len(net["A"]) < MaxNet /\ Transmit("A"))
    \/ (Len(net["A"]) < MaxNet /\ Poll("A"))
    \/ (Len(net["A"]) < MaxNet /\ Analyze("A"))

Spec == Init /\ [][Next]_vars

\* Two browser sessions served by the same host, in the upload phase: file
\* selection, the temp-file write, the size read and the two upload requests.
UploadPhase(s) ==
    \/ \E f \in Files : SelectFile(s, f)
    \/ RemoveFile(s)
    \/ ClickUpload(s)
    \/ Local(s)
    \/ (Len(net[s]) < MaxSessNet /\ InitRequest(s))
    \/ (Len(net[s]) < MaxSessNet /\ Transmit(s))

\* One browser session in which the user also changes the analysis options.
NextOptions ==
    \/ User("A")
    \/ Options("A")
    \/ Local("A")
    \/ (Len(net["A"]) < MaxOptNet /\ InitRequest("A"))
    \/ (Len(net["A"]) < MaxOptNet /\ Transmit("A"))
    \/ (Len(net["A"]) < MaxOptNet /\ Poll("A"))
    \/ (Len(net["A"]) < MaxOptNet /\ Analyze("A"))

SpecOptions == Init /\ [][NextOptions]_vars

\* One browser session left alone with its upload: the poll loop runs for as
\* long as the script keeps it running, whatever the length of the log.
NextLive ==
    \/ \E f \in Files : SelectFile("A", f)
    \/ RemoveFile("A")
    \/ ClickUpload("A")
    \/ Local("A")
    \/ (Len(net["A"]) < MaxLiveNet /\ InitRequest("A"))
    \/ (Len(net["A"]) < MaxLiveNet /\ Transmit("A"))
    \/ Poll("A")

\* Lines 82-85: inside the loop the script sleeps two seconds and issues the
\* next status GET by itself, and every request is taken to return.
SpecLive == Init /\ [][NextLive]_vars /\ WF_vars(Poll("A"))

NextSessions == \E s \in Sessions : UploadPhase(s)

SpecSessions == Init /\ [][NextSessions]_vars


\* ------------------------------------------------------------------ claims
\* The remote calls of the single session, and those of its current run.
Calls == net["A"]
RunCalls == SubSeq(net["A"], run_mark["A"] + 1, Len(net["A"]))

Last(seq) == seq[Len(seq)]

\* Call c carries a server report of the state of handle h.
ReportsOn(c, h) ==
    \/ c.op = "get" /\ c.to = h /\ c.res = "ok"
    \/ c.op = "transmit" /\ c.ret = h /\ c.state # "-"

\* The state the server last reported for handle h before call k.
LastReported(k, h) ==
    LET R == {i \in 1..(k - 1) : ReportsOn(Calls[i], h)}
    IN IF R = {} THEN "-"
       ELSE Calls[CHOOSE i \in R : \A j \in R : j <= i].state

\* Call j is a poll that found the file ACTIVE.
PolledActive(j) == Calls[j].op = "get" /\ Calls[j].state = "ACTIVE"

\* C1: every generateContent request references a file handle that the server
\* last reported ACTIVE.
C1_AnalysisOnlyWhenActive ==
    \A k \in DOMAIN Calls :
        Calls[k].op = "generate" => LastReported(k, Calls[k].to) = "ACTIVE"

\* C2: after a poll observed FAILED, no generateContent request is issued
\* until a later poll has observed ACTIVE.
C2_NoAnalysisAfterFailed ==
    \A i, k \in DOMAIN Calls :
        (i < k /\ Calls[i].op = "get" /\ Calls[i].state = "FAILED"
               /\ Calls[k].op = "generate")
        => \E j \in (i + 1)..(k - 1) : PolledActive(j)

\* C3: once a new upload has been started (its start request issued), no
\* later generateContent request references the handle of an earlier upload.
C3_NewUploadDiscardsHandle ==
    \A i, j, k \in DOMAIN Calls :
        (i < j /\ j < k /\ Calls[i].op = "transmit" /\ Calls[i].ret # None
               /\ Calls[j].op = "init" /\ Calls[k].op = "generate")
        => Calls[k].to # Calls[i].ret

\* C4: the stored handle is never partially populated: file_uri and file_name
\* are both unset or both name the file of one transmit response.
C4_HandleNeverPartial ==
    \A s \in Sessions : file_uri[s] = file_name[s]

\* C5: the poll loop is not left while the last observed state is PROCESSING,
\* and the run reports the video ready only when its last poll observed ACTIVE.
C5_ReadyOnlyIfActive ==
    /\ (RunCalls # <<>> /\ Last(RunCalls).op = "get"
            /\ Last(RunCalls).state = "PROCESSING") => pc["A"] = "poll"
    /\ display["A"] = "ready"
           => (RunCalls # <<>> /\ Last(RunCalls).op = "get"
                  /\ Last(RunCalls).state = "ACTIVE")

\* C6: a failed start or transmit request is followed by no poll request in
\* that run, and by no generateContent request until a later poll has
\* observed ACTIVE.
C6_FailedUploadBlocksAnalysis ==
    \A i \in DOMAIN Calls :
        (Calls[i].op \in {"init", "transmit"} /\ Calls[i].res = "error")
        => /\ (i < Len(Calls) => Calls[i + 1].op # "get")
           /\ \A k \in (i + 1)..Len(Calls) :
                  Calls[k].op = "generate"
                  => \E j \in (i + 1)..(k - 1) : PolledActive(j)

CountOf(seq, op) == Cardinality({i \in DOMAIN seq : seq[i].op = op})

\* C7: one run issues at most one start, one transmit and one generateContent
\* request, an upload click issues no generateContent and an analysis click
\* nothing else, no request follows a failed request in the same run, and a
\* failed request ends the run.
C7_NoRetry ==
    /\ CountOf(RunCalls, "init") <= 1
    /\ CountOf(RunCalls, "transmit") <= 1
    /\ CountOf(RunCalls, "generate") <= 1
    /\ button["A"] = "upload" => CountOf(RunCalls, "generate") = 0
    /\ button["A"] = "analysis" => CountOf(RunCalls, "generate") = Len(RunCalls)
    /\ button["A"] = "none" => RunCalls = <<>>
    /\ \A i \in 1..(Len(RunCalls) - 1) : RunCalls[i].res = "ok"
    /\ (RunCalls # <<>> /\ Last(RunCalls).res = "error") => pc["A"] = "idle"

\* An upload click whose run polled at least once and ended on a failed poll.
C7_Witness ==
    /\ button["A"] = "upload"
    /\ pc["A"] = "idle"
    /\ Len(RunCalls) >= 4
    /\ Last(RunCalls).op = "get"
    /\ Last(RunCalls).res = "error"
    /\ RunCalls[Len(RunCalls) - 1].op = "get"

\* C8: the analysis handler leaves file_uri, file_name and upload_complete as
\* they were and ends with the analysis section rendered, so that "Run
\* Analysis" can be clicked again.
C8_AnalysisKeepsReady ==
    [][pc["A"] = "analyze"
         => /\ file_uri' = file_uri
            /\ file_name' = file_name
            /\ upload_complete' = upload_complete
            /\ upload_complete'["A"]
            /\ pc'["A"] = "idle"
            /\ analysis_shown'["A"]
            /\ api_key'
            /\ session_init'["A"]]_vars

\* A second analysis against the same handle right after a failed one.
C8_Witness ==
    /\ pc["A"] = "idle"
    /\ Len(Calls) >= 2
    /\ Last(Calls).op = "generate"
    /\ Calls[Len(Calls) - 1].op = "generate"
    /\ Calls[Len(Calls) - 1].res = "error"
    /\ Last(Calls).to = Calls[Len(Calls) - 1].to
    /\ display["A"] = "raw_fallback"

\* The body holds a text at candidates[0].content.parts[0].text that is
\* valid JSON.
HoldsJsonText(body) ==
    /\ "candidates" \in DOMAIN body
    /\ body.candidates # <<>>
    /\ "content" \in DOMAIN body.candidates[1]
    /\ "parts" \in DOMAIN body.candidates[1].content
    /\ body.candidates[1].content.parts # <<>>
    /\ "text" \in DOMAIN body.candidates[1].content.parts[1]
    /\ body.candidates[1].content.parts[1].text \in ValidJson

\* C9: for a successful generateContent response with a JSON body, the run
\* shows the structured result if the body holds a valid-JSON text and the
\* raw fallback otherwise, never the fatal analysis error.
C9_ParseFailureFallsBack ==
    \A s \in Sessions :
        (response[s].status = "ok" /\ response[s].is_json)
        => display[s] = IF HoldsJsonText(response[s].body)
                        THEN "structured" ELSE "raw_fallback"

\* C10: with two sessions on one host, the bytes a session transmits are the
\* bytes of the file its user selected, and the lengths its start and transmit
\* requests declare are the number of bytes it sends.
C10_SessionsIsolated ==
    \A s \in Sessions :
        transmit_sent[s].sent
        => /\ transmit_sent[s].bytes = FileBytes(uploaded_file[s])
           /\ transmit_sent[s].declared = Len(transmit_sent[s].bytes)
           /\ init_sent[s].declared = Len(transmit_sent[s].bytes)


\* The run reports the video ready only after a status GET, issued after its
\* transmit succeeded, returned a state other than PROCESSING and FAILED; and
\* a run whose last call is a successful transmit is in the poll loop, not
\* ready, whatever state the transmit response reported.
ReadyOnlyAfterPoll ==
    /\ display["A"] = "ready"
           => /\ Len(RunCalls) >= 3
              /\ Last(RunCalls).op = "get"
              /\ Last(RunCalls).res = "ok"
              /\ Last(RunCalls).state \notin {"PROCESSING", "FAILED"}
              /\ RunCalls[2].op = "transmit"
              /\ RunCalls[2].res = "ok"
    /\ (RunCalls # <<>> /\ Last(RunCalls).op = "transmit" /\ Last(RunCalls).res = "ok")
           => /\ pc["A"] = "poll"
              /\ display["A"] # "ready"
              /\ ~analysis_shown["A"]

\* C11 as stated: readiness comes from polls only, and every value the local
\* state holds was copied from a poll response of the run.
C11_StateOnlyFromPolls ==
    /\ ReadyOnlyAfterPoll
    /\ state["A"] # "-"
           => \E i \in DOMAIN RunCalls :
                  /\ RunCalls[i].op = "get"
                  /\ RunCalls[i].res = "ok"
                  /\ RunCalls[i].state = state["A"]

\* C11, amended: readiness comes from polls only, and the local state is the
\* literal PROCESSING the loop is entered with until a poll response replaces
\* it, after which it is the state of the run's last successful poll.
C11_ReadinessFromPolls ==
    /\ ReadyOnlyAfterPoll
    /\ state["A"] \notin {"-", "PROCESSING"}
           => /\ RunCalls # <<>>
              /\ Last(RunCalls).op = "get"
              /\ Last(RunCalls).res = "ok"
              /\ Last(RunCalls).state = state["A"]
    /\ (state["A"] = "PROCESSING"
            /\ \E i \in DOMAIN RunCalls : RunCalls[i].op = "get" /\ RunCalls[i].res = "ok")
           => \A i \in DOMAIN RunCalls :
                  (RunCalls[i].op = "get" /\ RunCalls[i].res = "ok")
                  => RunCalls[i].state = "PROCESSING"

\* A transmit response that reported ACTIVE, followed by a poll that still
\* found PROCESSING and one that found ACTIVE.
C11_Witness ==
    /\ display["A"] = "ready"
    /\ Len(RunCalls) = 4
    /\ RunCalls[2].state = "ACTIVE"
    /\ RunCalls[3].state = "PROCESSING"
    /\ RunCalls[4].state = "ACTIVE"

\* The error message the program shows when remote call op fails.
ErrorShown(op) ==
    CASE op \in {"init", "transmit"} -> "upload_failed"
      [] op = "get" -> "poll_failed"
      [] OTHER -> "analysis_failed"

\* C12: every failure outcome of the four remote calls (transport exception,
\* non-success status, missing X-Goog-Upload-URL header, missing handle
\* fields, poll body with neither state shape, body that is not JSON) ends
\* the run with the program's own error message for that call shown; no run
\* ever ends on an exception that no except clause caught.
C12_FailuresHandled ==
    /\ display["A"] # "unhandled_exception"
    /\ (RunCalls # << >> /\ Last(RunCalls).res = "error")
       => /\ pc["A"] = "idle"
          /\ display["A"] = ErrorShown(Last(RunCalls).op)
    /\ (get_response["A"].status = "ok"
        /\ (~get_response["A"].is_json
            \/ DOMAIN get_response["A"].body \cap {"file", "state"} = {}))
       => /\ pc["A"] = "idle"
          /\ display["A"] = "poll_failed"
    /\ (response["A"].status \in {"exception", "error"}
        \/ (response["A"].status = "ok" /\ ~response["A"].is_json))
       => /\ pc["A"] = "idle"
          /\ display["A"] = "analysis_failed"

\* A status poll answered with a body that is not JSON was shown as a poll
\* error.
C12_Witness ==
    /\ get_response["A"].status = "ok"
    /\ ~get_response["A"].is_json
    /\ display["A"] = "poll_failed"

\* The fixed template of analysis mode m.
Template(m) ==
    CASE m = "Anomaly Detection" -> AnomalyPrompt
      [] m = "Object Detection" -> ObjectPrompt
      [] m = "Unknown Person Detection" -> PersonPrompt
      [] m = "Summarization" -> SummaryPrompt

\* The prompt carried by request body b.
TextOf(b) == b.contents[1].parts[2].text

\* C14: the prompt of every request sent is the fixed template of the mode
\* selected, followed by the focus sentence and the focus text exactly when
\* the mode is Summarization and the focus text is non-empty; for the other
\* three modes it is the template whatever focus text was entered earlier,
\* and an empty focus text leaves the Summarization template unchanged.
C14_PromptFromModeAndFocus ==
    LET p == payload["A"]
    IN p.sent
       => /\ p.mode \in Range(AnalysisTypes)
          /\ (p.mode = "Summarization" /\ p.focus # "")
             => TextOf(p.body) = Template(p.mode)
                                   \o << " Focus the summary only on: ", p.focus >>
          /\ p.mode # "Summarization" => TextOf(p.body) = Template(p.mode)
          /\ p.focus = "" => TextOf(p.body) = Template(p.mode)

\* A request for another mode sent while focus text typed earlier was still
\* held by the session.
C14_Witness ==
    /\ payload["A"].sent
    /\ payload["A"].mode = "Object Detection"
    /\ payload["A"].focus = "the red car"

C16_PhasesOrdered ==
    /\ \A i \in DOMAIN RunCalls :
          /\ RunCalls[i].op = "init" => i = 1
          /\ RunCalls[i].op = "transmit"
                => /\ i = 2
                   /\ RunCalls[1].op = "init"
                   /\ RunCalls[1].res = "ok"
                   /\ RunCalls[1].ret # None
                   /\ RunCalls[i].to = RunCalls[1].ret
          /\ RunCalls[i].op = "get"
                => /\ i >= 3
                   /\ RunCalls[2].op = "transmit"
                   /\ RunCalls[2].res = "ok"
                   /\ RunCalls[2].ret # None
                   /\ RunCalls[i].to = RunCalls[2].ret
                   /\ \A j \in 3..(i - 1) :
                          /\ RunCalls[j].op = "get"
                          /\ RunCalls[j].state = "PROCESSING"
    /\ \A i, j \in DOMAIN Calls :
          (i < j /\ Calls[i].op = "transmit" /\ Calls[j].op = "transmit")
          => Calls[i].to # Calls[j].to
    /\ \A k \in DOMAIN Calls :
          Calls[k].op = "generate"
          => \E j \in 1..(k - 1) :
                 /\ Calls[j].op = "get"
                 /\ Calls[j].res = "ok"
                 /\ Calls[j].state \notin {"PROCESSING", "FAILED"}

\* A second upload polled twice, after an analysis of the first.
C16_Witness ==
    /\ Len(Calls) = 7
    /\ Calls[4].op = "generate"
    /\ Len(RunCalls) = 3
    /\ Last(RunCalls).op = "get"
    /\ Last(RunCalls).to = 2

\* C17: without the API key no session state is initialised, no remote call
\* is ever issued, and a session is either not yet loaded or stopped on the
\* configuration error with nothing else rendered.
C17_NoKeyNoWorkflow ==
    ~api_key =>
        \A s \in Sessions :
            /\ ~session_init[s]
            /\ net[s] = <<>>
            /\ file_uri[s] = None /\ file_name[s] = None /\ ~upload_complete[s]
            /\ uploaded_file[s] = NoFile
            /\ ~analysis_shown[s]
            /\ \/ pc[s] = "start" /\ display[s] = "none"
               \/ pc[s] = "idle" /\ display[s] = "config_error"

\* The page was loaded without the key and the script has stopped.
C17_Witness ==
    /\ ~api_key
    /\ pc["A"] = "idle"
    /\ display["A"] = "config_error"

\* The state a poll body reports, read off the body's shape.
Observed(body) ==
    IF "file" \in DOMAIN body THEN body.file.state ELSE body.state

\* C18: after a poll response with the 'file' member the observed state is
\* file.state, after one with a top-level state it is that state, and the
\* decision taken depends on the observed state only (PROCESSING polls
\* again, FAILED stops with the failure message, anything else marks the
\* upload ready); a JSON response with neither shape ends the run with the
\* poll error, leaving the state as it was and the upload not marked ready
\* by this run.
C18_BothShapesSameDecision ==
    LET r == get_response["A"]
    IN /\ (r.status = "ok" /\ r.is_json
           /\ DOMAIN r.body \cap {"file", "state"} # {})
          => /\ state["A"] = Observed(r.body)
             /\ Last(RunCalls).state = Observed(r.body)
             /\ Observed(r.body) = "PROCESSING" => pc["A"] = "poll"
             /\ Observed(r.body) = "FAILED"
                => (pc["A"] = "idle" /\ display["A"] = "processing_failed")
             /\ Observed(r.body) \notin {"PROCESSING", "FAILED"}
                => (upload_complete["A"] /\ display["A"] = "ready")
       /\ (r.status = "ok" /\ r.is_json
           /\ DOMAIN r.body \cap {"file", "state"} = {})
          => /\ state["A"] = "PROCESSING"
             /\ pc["A"] = "idle"
             /\ display["A"] = "poll_failed"
             /\ Last(RunCalls).res = "error"

\* A poll answered in the top-level shape marked the upload ready.
C18_Witness ==
    /\ get_response["A"].status = "ok"
    /\ get_response["A"].is_json
    /\ "file" \notin DOMAIN get_response["A"].body
    /\ "state" \in DOMAIN get_response["A"].body
    /\ get_response["A"].body.state = "ACTIVE"
    /\ display["A"] = "ready"

\* Poll response r reports the file as still PROCESSING.
AnsweredProcessing(r) ==
    /\ r.status = "ok"
    /\ r.is_json
    /\ DOMAIN r.body \cap {"file", "state"} # {}
    /\ Observed(r.body) = "PROCESSING"

\* C13: the poll loop has no attempt bound. A poll answered PROCESSING keeps
\* the upload action in the loop; a poll answered with any other state, or
\* one that fails, ends the action in that step; and whatever the number of
\* polls issued so far, a run in the loop either ends or issues another
\* poll, so that an action whose polls are all answered PROCESSING never
\* ends and goes on polling.
C13_PollsWithoutBound ==
    /\ [][(pc["A"] = "poll" /\ AnsweredProcessing(get_response'["A"]))
          => pc'["A"] = "poll"]_vars
    /\ [][(pc["A"] = "poll" /\ ~AnsweredProcessing(get_response'["A"]))
          => pc'["A"] = "idle"]_vars
    /\ \A n \in 0..(PollWrap - 1) :
          (pc["A"] = "poll" /\ polls["A"] = n)
          ~> (pc["A"] = "idle" \/ polls["A"] # n)

\* The loop is still polling after more polls than the log can hold.
C13_Witness ==
    /\ pc["A"] = "poll"
    /\ Len(Calls) = MaxNet
    /\ polls["A"] = 0
    /\ AnsweredProcessing(get_response["A"])

\* A step that turns upload_complete on is a poll that observed a state
\* other than PROCESSING and FAILED.
TurnedOnByPoll ==
    /\ net'["A"] # net["A"]
    /\ Last(net'["A"]).op = "get"
    /\ Last(net'["A"]).res = "ok"
    /\ Last(net'["A"]).state \notin {"PROCESSING", "FAILED"}

\* C19: upload_complete is False until the first run has initialised it, no
\* step turns it from True to False, and a step that turns it on is a poll
\* that observed a non-FAILED end state.
C19_CompleteMonotone ==
    [][/\ upload_complete["A"] => upload_complete'["A"]
       /\ (~upload_complete["A"] /\ upload_complete'["A"]) => TurnedOnByPoll
       /\ pc["A"] = "start" => ~upload_complete["A"]]_vars

\* The flag is still set after a later upload was reported FAILED.
C19_Witness ==
    /\ upload_complete["A"]
    /\ display["A"] = "processing_failed"

====
